---- MODULE Spec2Model ----
(***************************************************************************)
(* Row-level authorization wrappers of the GraphQL API generator           *)
(* (src/src/wrappers/auth.ts), the identity validator (src/unnamed/        *)
(* part_001), the schema wiring of src/src/functions.ts and the update-each *)
(* resolver, over a small document store.                                  *)
(*                                                                         *)
(* JavaScript objects are functions whose DOMAIN is the set of keys that   *)
(* are present; arrays are sequences.  A value of unknown shape (a result, *)
(* a pre-fetched value) is a pair [kind, value].                           *)
(***************************************************************************)
EXTENDS Integers, Sequences, FiniteSets, TLC

VARIABLES
    authConfig,     \* the entity's _authConfig (functions.ts:232)
    startup,        \* "init" | "ok" | "configError": getGraphqlAttrs' outcome
    wrappers,       \* operation name -> "unbuilt" | "passthrough" | "wrapped"
    validateCalls,  \* number of validateAuthObject invocations so far
    store,          \* the collection: _id -> stored document
    req,            \* the request whose continuation runs (rp, its position and its trace)
    inflight        \* the requests suspended at an await while another one runs

vars == <<authConfig, startup, wrappers, validateCalls, store, req, inflight>>

----------------------------------------------------------------------------
(* Bounds *)

MaxBatch == 2       \* longest args.records / args._ids list
MaxRoles == 3       \* longest role list of a claim or of a policy set
MaxSuspended == 1   \* most requests suspended at an await while another one runs

Ids == {1, 2}       \* the document ids of the collection
EmptyObject == [k \in {} |-> 0]

\* JS: obj[k] = v
Put(obj, k, v) == [x \in (DOMAIN obj) \cup {k} |-> IF x = k THEN v ELSE obj[x]]
Has(obj, k) == k \in DOMAIN obj

----------------------------------------------------------------------------
(* Identity claims: context.user *)

Str(s) == <<"string", s>>
Num(s) == <<"number", s>>

\* permissions: [isArray, items]; an item is <<typeof, value>>
Arr(items) == [isArray |-> TRUE, items |-> items]
NotAnArray == [isArray |-> FALSE, items |-> <<>>]

NoUser == [isNull |-> TRUE]                       \* context.user = null
User(id, perms) == [id |-> id, permissions |-> perms]

isArrayOfStringsSome(value) ==
    /\ value.isArray
    /\ \E i \in 1..Len(value.items) : value.items[i][1] = "string"

\* Array.isArray(value) && value.every((item) => typeof item === "string")
isArrayOfStrings(value) ==
    /\ value.isArray
    /\ \A i \in 1..Len(value.items) : value.items[i][1] = "string"

isValidJwtPayloadIdOnly(jwt) ==
    IF Has(jwt, "isNull") THEN FALSE
    ELSE jwt.id # 0

isValidJwtPayload(jwt) ==
    IF Has(jwt, "isNull") THEN FALSE
    ELSE jwt.id # 0 /\ isArrayOfStrings(jwt.permissions)

----------------------------------------------------------------------------
(* Policies: EntityAuthConfig *)

NoAuthConfig == [isUndefined |-> TRUE]

Config(rAll, wAll, rSelf, wSelf) ==
    [readAll |-> rAll, writeAll |-> wAll, readSelf |-> rSelf, writeSelf |-> wSelf]

\* authConfig.userIdField! used as a computed property key
userIdField(cfg) == IF Has(cfg, "userIdField") THEN cfg.userIdField ELSE "undefined"

isAuthConfigImpactfulAlways(cfg) == TRUE
isAuthConfigImpactful(cfg) == ~Has(cfg, "isUndefined")

validateAuthObjectSelfBoth(cfg) ==
    IF Has(cfg, "isUndefined") THEN "TypeError"
    ELSE IF ~Has(cfg, "userIdField") /\ (Len(cfg.readSelf) # 0 /\ Len(cfg.writeSelf) # 0)
         THEN "ConfigurationError"
    ELSE "ok"
\* "ok" when validateAuthObject returns, otherwise what it throws
validateAuthObject(cfg) ==
    IF Has(cfg, "isUndefined") THEN "TypeError"
    ELSE IF ~Has(cfg, "userIdField") /\ (Len(cfg.readSelf) # 0 \/ Len(cfg.writeSelf) # 0)
         THEN "ConfigurationError"
    ELSE "ok"

intersectionByIndex(a, b) ==
    SelectSeq([i \in 1..(IF Len(a) < Len(b) THEN Len(a) ELSE Len(b)) |->
                  IF a[i] = b[i] THEN a[i] ELSE <<>>],
              LAMBDA x : x # <<>>)

\* _.intersection(a, b): the unique values of a that b includes, in a's order
RECURSIVE intersection(_, _)
intersection(a, b) ==
    IF a = <<>> THEN <<>>
    ELSE LET rest == intersection(Tail(a), b)
             x == Head(a)
         IN IF (\E j \in 1..Len(b) : b[j] = x)
               THEN <<x>> \o SelectSeq(rest, LAMBDA y : y # x)
               ELSE rest

Roles(list) == [i \in 1..Len(list) |-> Str(list[i])]

checkIfCanReadAll(jwt, cfg) == Len(intersection(jwt.permissions.items, Roles(cfg.readAll))) # 0
checkIfCanWriteAll(jwt, cfg) == Len(intersection(jwt.permissions.items, Roles(cfg.writeAll))) # 0
checkIfCanReadSelf(jwt, cfg) == Len(intersection(jwt.permissions.items, Roles(cfg.readSelf))) # 0
checkIfCanWriteSelf(jwt, cfg) == Len(intersection(jwt.permissions.items, Roles(cfg.writeSelf))) # 0

----------------------------------------------------------------------------
(* The store and the base resolvers the ORM layer generates.  A document   *)
(* is an object with "_id" and the schema's fields; "ownerId" is the owner *)
(* field of the policies below.                                            *)

SchemaFields == {"ownerId", "val", "name", "age", "meta"}

\* the schema fields whose value is a nested object
NestedFields == {"meta"}

NullResult == [kind |-> "null", value |-> EmptyObject]
ObjectResult(doc) == [kind |-> "object", value |-> doc]
ArrayResult(docs) == [kind |-> "array", value |-> docs]
PageResult(docs) == [kind |-> "page", value |-> docs]
NumberResult(n) == [kind |-> "number", value |-> [count |-> n]]
ErrorResult(e) == [kind |-> "error", value |-> [message |-> e]]
NoResult == [kind |-> "none", value |-> EmptyObject]

\* the orders in which the store may return documents
Orders ==
    {p \in [1..Cardinality(Ids) -> Ids] : \A i, j \in 1..Cardinality(Ids) : p[i] = p[j] => i = j}

Restrict(obj, keys) == [k \in (DOMAIN obj) \cap keys |-> obj[k]]

\* strict schema: fields outside the schema are dropped
Cast(record) == Restrict(record, SchemaFields \cup {"_id"})

\* projection {} selects everything; otherwise the named fields and _id
Project(doc, projection) ==
    IF DOMAIN projection = {} THEN doc
    ELSE Restrict(doc, (DOMAIN projection) \cup {"_id"})

Matches(doc, args) ==
    ~Has(args, "filter") \/
    \A k \in DOMAIN args.filter : Has(doc, k) /\ doc[k] = args.filter[k]

\* ids of the documents a filter selects, in the store's order
Selected(st, order, args) ==
    SelectSeq(order, LAMBDA id : id \in DOMAIN st /\ Matches(st[id], args))

FetchAll(st, ids, projection) == [i \in 1..Len(ids) |-> Project(st[ids[i]], projection)]

FetchFirst(st, ids, projection) ==
    IF ids = <<>> THEN NullResult ELSE ObjectResult(Project(st[ids[1]], projection))

findById(st, args, projection) ==
    IF Has(args, "_id") /\ args._id \in DOMAIN st
    THEN ObjectResult(Project(st[args._id], projection))
    ELSE NullResult

findByIds(st, order, args, projection) ==
    LET wanted == IF Has(args, "_ids") THEN {args._ids[i] : i \in 1..Len(args._ids)} ELSE {}
    IN ArrayResult(FetchAll(st, SelectSeq(order, LAMBDA id : id \in DOMAIN st /\ id \in wanted),
                            projection))

findOne(st, order, args, projection) == FetchFirst(st, Selected(st, order, args), projection)

findMany(st, order, args, projection) ==
    ArrayResult(FetchAll(st, Selected(st, order, args), projection))

\* doc.set(record): the record's schema fields replace the document's
SetFields(doc, record) ==
    LET r == Restrict(record, SchemaFields)
    IN [k \in (DOMAIN doc) \cup (DOMAIN r) |-> IF Has(r, k) THEN r[k] ELSE doc[k]]

UpdateIds(st, ids, record) ==
    [id \in DOMAIN st |-> IF id \in ids THEN SetFields(st[id], record) ELSE st[id]]

RemoveIds(st, ids) == [id \in (DOMAIN st) \ ids |-> st[id]]

SeqSet(s) == {s[i] : i \in 1..Len(s)}

FreeIds(st) == Ids \ DOMAIN st

\* the i-th created document gets the i-th smallest free id
RECURSIVE Insert(_, _)
Insert(st, records) ==
    IF records = <<>> \/ FreeIds(st) = {} THEN st
    ELSE LET id == CHOOSE x \in FreeIds(st) : \A y \in FreeIds(st) : x <= y
             doc == Put(Restrict(Head(records), SchemaFields), "_id", id)
         IN Insert([x \in (DOMAIN st) \cup {id} |-> IF x = id THEN doc ELSE st[x]],
                   Tail(records))

Payload(obj) == [kind |-> "payload", value |-> obj]

\* the ORM's create resolvers reject a missing record / an empty record list
createOne(st, args) ==
    IF ~Has(args, "record") THEN [store |-> st, result |-> ErrorResult("ResolverError")]
    ELSE LET st2 == Insert(st, <<args.record>>)
             new == (DOMAIN st2) \ (DOMAIN st)
         IN [store |-> st2,
             result |-> IF new = {} THEN ErrorResult("StoreFull")
                        ELSE Payload([record |-> st2[CHOOSE id \in new : TRUE]])]

createMany(st, args) ==
    IF ~Has(args, "records") \/ Len(args.records) = 0
    THEN [store |-> st, result |-> ErrorResult("ResolverError")]
    ELSE LET st2 == Insert(st, args.records)
             new == (DOMAIN st2) \ (DOMAIN st)
         IN [store |-> st2, result |-> Payload([createdCount |-> Cardinality(new)])]

updateById(st, args) ==
    IF Has(args, "_id") /\ args._id \in DOMAIN st
    THEN LET st2 == UpdateIds(st, {args._id}, args.record)
         IN [store |-> st2, result |-> Payload([record |-> st2[args._id]])]
    ELSE [store |-> st, result |-> NullResult]

updateOne(st, order, args) ==
    LET ids == Selected(st, order, args)
    IN IF ids = <<>> THEN [store |-> st, result |-> NullResult]
       ELSE LET st2 == UpdateIds(st, {ids[1]}, args.record)
            IN [store |-> st2, result |-> Payload([record |-> st2[ids[1]]])]

updateMany(st, order, args) ==
    LET ids == Selected(st, order, args)
    IN [store |-> UpdateIds(st, SeqSet(ids), args.record),
        result |-> Payload([numAffected |-> Len(ids)])]

removeById(st, args) ==
    IF Has(args, "_id") /\ args._id \in DOMAIN st
    THEN [store |-> RemoveIds(st, {args._id}), result |-> Payload([record |-> st[args._id]])]
    ELSE [store |-> st, result |-> NullResult]

removeOne(st, order, args) ==
    LET ids == Selected(st, order, args)
    IN IF ids = <<>> THEN [store |-> st, result |-> NullResult]
       ELSE [store |-> RemoveIds(st, {ids[1]}), result |-> Payload([record |-> st[ids[1]]])]

removeMany(st, order, args) ==
    LET ids == Selected(st, order, args)
    IN [store |-> RemoveIds(st, SeqSet(ids)), result |-> Payload([numAffected |-> Len(ids)])]

----------------------------------------------------------------------------
(* The update-each resolver (src/src/resolvers/updateByIdEach.ts) *)

\* an entry of args.records: <<typeof, value>>; null is an "object"
Obj(record) == <<"object", record>>
Null == <<"object", [isNull |-> TRUE]>>

\* args.records as the GraphQL layer delivers it: a list of input objects
recordDataOf(args) ==
    IF Has(args, "records")
    THEN Arr([i \in 1..Len(args.records) |-> Obj(args.records[i])])
    ELSE NotAnArray

\* the loop over recordData: "ok", or what the first offending entry throws
\* (Object.keys(null) throws a TypeError)
RECURSIVE checkRecords(_)
checkRecords(items) ==
    IF items = <<>> THEN "ok"
    ELSE LET record == Head(items)
         IN IF record[1] # "object" THEN "InvalidPayload"
            ELSE IF Has(record[2], "isNull") THEN "TypeError"
            ELSE IF DOMAIN record[2] = {} THEN "InvalidPayload"
            ELSE checkRecords(Tail(items))

\* the resolver's validation: "ok", or what it throws
updateByIdEachCheck(recordData) ==
    IF ~recordData.isArray \/ Len(recordData.items) = 0 THEN "InvalidPayload"
    ELSE checkRecords(recordData.items)

\* docs: new model(record) for each record (no beforeRecordMutate hook is set)
updateByIdEachDocs(recordData) ==
    [i \in 1..Len(recordData.items) |-> Cast(recordData.items[i][2])]

\* model.findByIdAndUpdate(doc._id, doc): no upsert, an unknown id changes nothing
findByIdAndUpdate(st, doc) ==
    IF Has(doc, "_id") /\ doc._id \in DOMAIN st THEN UpdateIds(st, {doc._id}, doc) ELSE st

\* model.findById(doc._id)
modelFindById(st, doc) ==
    IF Has(doc, "_id") /\ doc._id \in DOMAIN st THEN ObjectResult(st[doc._id]) ELSE NullResult

updateByIdEachReturnFound(records, docs) ==
    Payload([records |-> records,
             updatedCount |-> Cardinality({i \in 1..Len(records) : records[i].kind # "null"})])

\* return { records, updatedCount: docs.length }
updateByIdEachReturn(records, docs) ==
    Payload([records |-> records, updatedCount |-> Len(docs)])

Pending == [state |-> "pending", error |-> "none"]

PromiseAllSettled(sub, failures) ==
    IF \A i \in 1..Len(sub) : sub[i] \in {"done", "rejected"}
    THEN [state |-> "fulfilled", error |-> "none"]
    ELSE Pending

\* Promise.all over the sub-operations: rejected with the first rejection,
\* fulfilled once every sub-operation is
PromiseAll(sub, failures) ==
    IF failures # <<>> THEN [state |-> "rejected", error |-> failures[1].error]
    ELSE IF \A i \in 1..Len(sub) : sub[i] = "done" THEN [state |-> "fulfilled", error |-> "none"]
    ELSE Pending

\* model.findByIdAndUpdate(doc._id, doc) for each doc: the calls are launched
\* together by docs.map and take effect in the order the store answers them;
\* answers[k] is the index of the doc whose call is answered k-th
RECURSIVE findByIdAndUpdateAll(_, _, _)
findByIdAndUpdateAll(st, docs, answers) ==
    IF answers = <<>> THEN st
    ELSE findByIdAndUpdateAll(findByIdAndUpdate(st, docs[Head(answers)]), docs, Tail(answers))

\* the sub-operations of docs.map as the store answers their calls: answers
\* lists doc indices, the first occurrence of an index being the answer to its
\* findByIdAndUpdate and the second the answer to its findById
RECURSIVE answerEach(_, _, _, _, _)
answerEach(st, docs, records, updated, answers) ==
    IF answers = <<>> THEN [store |-> st, records |-> records]
    ELSE LET i == Head(answers)
         IN IF i \notin updated
            THEN answerEach(findByIdAndUpdate(st, docs[i]), docs, records,
                            updated \cup {i}, Tail(answers))
            ELSE answerEach(st, docs, [records EXCEPT ![i] = modelFindById(st, docs[i])],
                            updated, Tail(answers))

\* the resolver when no other request's store operation interleaves with it and
\* the store answers every call, in the order answers
updateByIdEach(st, args, answers) ==
    LET check == updateByIdEachCheck(recordDataOf(args))
    IN IF check # "ok" THEN [store |-> st, result |-> ErrorResult(check)]
       ELSE LET docs == updateByIdEachDocs(recordDataOf(args))
                r == answerEach(st, docs, [i \in 1..Len(docs) |-> NoResult], {}, answers)
            IN [store |-> r.store, result |-> updateByIdEachReturn(r.records, docs)]

----------------------------------------------------------------------------
(* The pre-fetch/merge helpers (src/src/functions.ts) *)

\* the source's own properties assigned over the object's, one level deep
assign(object, source) ==
    [k \in (DOMAIN object) \cup (DOMAIN source) |->
        IF Has(source, k) THEN source[k] ELSE object[k]]

mergeShallow(object, source) == assign(object, source)

\* _.merge(object, source): recursive; a nested object present on both sides
\* is merged property by property
merge(object, source) ==
    [k \in (DOMAIN object) \cup (DOMAIN source) |->
        IF ~Has(source, k) THEN object[k]
        ELSE IF Has(object, k) /\ k \in NestedFields THEN assign(object[k], source[k])
        ELSE source[k]]

\* _.merge(array, array): element by element, by index
mergeArrays(objects, sources) ==
    [i \in 1..(IF Len(objects) > Len(sources) THEN Len(objects) ELSE Len(sources)) |->
        IF i > Len(sources) THEN objects[i]
        ELSE IF i > Len(objects) THEN sources[i]
        ELSE merge(objects[i], sources[i])]

\* rp.args after wrapResolverWithPreFetchOne; prefetched is the helper's fetch result
wrapResolverWithPreFetchOne(prefetched, args) ==
    LET object == IF prefetched.kind = "null" THEN EmptyObject ELSE prefetched.value
        source == IF Has(args, "record") THEN args.record ELSE EmptyObject
    IN Put(args, "record", merge(object, source))

\* rp.args after wrapResolverWithPreFetchByIds
wrapResolverWithPreFetchByIds(st, order, args) ==
    LET ids == {args.records[i]._id : i \in 1..Len(args.records)}
        result == FetchAll(st, SelectSeq(order, LAMBDA id : id \in DOMAIN st /\ id \in ids),
                           EmptyObject)
    IN Put(args, "records", mergeArrays(result, args.records))

----------------------------------------------------------------------------
(* Schema wiring: getGraphqlAttrs (src/src/functions.ts) *)

\* the generated fields of one entity, in the order their wrappers are built
OpOrder ==
    << "ById", "ByIds", "One", "Many", "Count", "Connection", "Pagination",
       "CreateOne", "CreateMany", "UpdateById", "UpdatePartialById",
       "UpdateByIdEach", "UpdatePartialByIdEach", "UpdateOne", "PartialUpdateOne",
       "UpdateMany", "RemoveById", "RemoveOne", "RemoveMany" >>

Ops == SeqSet(OpOrder)

W(wrapper, base, aux, prefetch) ==
    [wrapper |-> wrapper, base |-> base, aux |-> aux, prefetch |-> prefetch]

\* wrapper: the auth wrapper; base: the ORM resolver; aux: the wrapper's
\* auxiliary fetch resolver; prefetch: the inner pre-fetch/merge helper's fetch
Wiring(op) ==
    CASE op = "ById"        -> W("authQueryOneResolver", "findById", "none", "none")
      [] op = "ByIds"       -> W("authQueryByIdsResolver", "findByIds", "none", "none")
      [] op = "One"         -> W("authQueryWithFilterResolver", "findOne", "none", "none")
      [] op = "Many"        -> W("authQueryWithFilterResolver", "findMany", "none", "none")
      [] op = "Count"       -> W("authQueryWithFilterResolver", "count", "none", "none")
      [] op = "Connection"  -> W("authQueryWithFilterResolver", "connection", "none", "none")
      [] op = "Pagination"  -> W("authQueryWithFilterResolver", "pagination", "none", "none")
      [] op = "CreateOne"   -> W("wrapCreateAuth", "createOne", "none", "none")
      [] op = "CreateMany"  -> W("wrapCreateAuth", "createMany", "none", "none")
      [] op = "UpdateById"  -> W("wrapMutationAuth", "updateById", "findById", "none")
      [] op = "UpdatePartialById" -> W("wrapMutationAuth", "updateById", "findById", "findById")
      [] op = "UpdateByIdEach" -> W("authMutationByIdsEach", "updateByIdEach", "findByIds", "none")
      [] op = "UpdatePartialByIdEach" ->
                               W("authMutationByIdsEach", "updateByIdEach", "findByIds", "findMany")
      [] op = "UpdateOne"   -> W("wrapMutationWithFilterAuth", "updateOne", "findOne", "none")
      [] op = "PartialUpdateOne" ->
                               W("wrapMutationWithFilterAuth", "updateOne", "findOne", "findOne")
      [] op = "UpdateMany"  -> W("wrapMutationWithFilterAuth", "updateMany", "findMany", "none")
      [] op = "RemoveById"  -> W("wrapMutationAuth", "removeById", "findById", "none")
      [] op = "RemoveOne"   -> W("wrapMutationAuth", "removeOne", "findOne", "none")
      [] op = "RemoveMany"  -> W("wrapMutationAuth", "removeMany", "findMany", "none")
      [] op = "NestedOne"   -> W("none", "findById", "none", "none")
      [] op = "NestedMany"  -> W("none", "findByIds", "none", "none")

\* the nested relation fields of another entity's type that resolve to this
\* entity: their resolve function calls findById / findByIds itself
NestedOps == {"NestedOne", "NestedMany"}

IsQuery(op) ==
    \/ op \in NestedOps
    \/ Wiring(op).wrapper \in
          {"authQueryOneResolver", "authQueryByIdsResolver", "authQueryWithFilterResolver"}

\* a fetch resolver's resolve({args, projection})
Fetch(name, st, order, args, projection) ==
    CASE name = "findById"   -> findById(st, args, projection)
      [] name = "findByIds"  -> findByIds(st, order, args, projection)
      [] name = "findOne"    -> findOne(st, order, args, projection)
      [] name = "findMany"   -> findMany(st, order, args, projection)
      [] name = "count"      -> NumberResult(Len(Selected(st, order, args)))
      [] name = "connection" -> PageResult(FetchAll(st, Selected(st, order, args), projection))
      [] name = "pagination" -> PageResult(FetchAll(st, Selected(st, order, args), projection))

Mutate(name, st, order, answers, args) ==
    CASE name = "createOne"      -> createOne(st, args)
      [] name = "createMany"     -> createMany(st, args)
      [] name = "updateById"     -> updateById(st, args)
      [] name = "updateOne"      -> updateOne(st, order, args)
      [] name = "updateMany"     -> updateMany(st, order, args)
      [] name = "removeById"     -> removeById(st, args)
      [] name = "removeOne"      -> removeOne(st, order, args)
      [] name = "removeMany"     -> removeMany(st, order, args)
      [] name = "updateByIdEach" -> updateByIdEach(st, args, answers)

\* rp.args as the base resolver receives it: after the pre-fetch/merge helper,
\* if the field has one
InnerArgs(op, st, order, args) ==
    LET w == Wiring(op)
    IN IF w.prefetch = "none" THEN args
       ELSE IF w.prefetch = "findMany" THEN wrapResolverWithPreFetchByIds(st, order, args)
       ELSE wrapResolverWithPreFetchOne(Fetch(w.prefetch, st, order, args, EmptyObject), args)

\* the resolver handed to the auth wrapper, run with no other request's store
\* operation in between: the base resolver inside its pre-fetch/merge helper
\* (wrapResolverWithSubscription leaves args and result alone)
Inner(op, st, order, answers, args, projection) ==
    LET w == Wiring(op)
    IN IF IsQuery(op)
       THEN [store |-> st, result |-> Fetch(w.base, st, order, args, projection)]
       ELSE Mutate(w.base, st, order, answers, InnerArgs(op, st, order, args))

----------------------------------------------------------------------------
(* The auth wrappers (src/src/wrappers/auth.ts).  Each is given as the     *)
(* part of its resolve callback that runs up to the first await, the part  *)
(* that runs once the auxiliary fetch has answered, and the part that runs *)
(* once the wrapped resolver has answered.  rp = [user, args, projection]. *)

NoCall == [args |-> EmptyObject, projection |-> EmptyObject]

Throw(rp, e) ==
    [pc |-> "done", args |-> rp.args, projection |-> rp.projection, error |-> e,
     post |-> "none", aux |-> NoCall]

\* await next(rp), with rp as mutated so far
CallNext(args, projection, post) ==
    [pc |-> "next", args |-> args, projection |-> projection, error |-> "none",
     post |-> post, aux |-> NoCall]

\* await <aux>.resolve({args, projection})
CallAux(rp, auxArgs, auxProjection) ==
    [pc |-> "prefetch", args |-> rp.args, projection |-> rp.projection, error |-> "none",
     post |-> "none", aux |-> [args |-> auxArgs, projection |-> auxProjection]]

\* { [authConfig.userIdField]: {} }
OwnerProjection(cfg) == Put(EmptyObject, userIdField(cfg), TRUE)

\* item[authConfig.userIdField] === rp.context.user.id
Owns(item, cfg, jwt) == Has(item, userIdField(cfg)) /\ item[userIdField(cfg)] = jwt.id

wrapCreateAuthFirstOnly(cfg, rp) ==
    IF ~isValidJwtPayload(rp.user) THEN Throw(rp, "AuthenticationRequired")
    ELSE IF ~checkIfCanWriteSelf(rp.user, cfg) /\ ~checkIfCanWriteAll(rp.user, cfg)
         THEN Throw(rp, "AccessDenied")
    ELSE IF Has(rp.args, "records")
         THEN CallNext(Put(rp.args, "records",
                           [i \in 1..Len(rp.args.records) |->
                               IF i = 1 THEN Put(rp.args.records[i], userIdField(cfg), rp.user.id)
                               ELSE rp.args.records[i]]),
                       rp.projection, "none")
    ELSE IF Has(rp.args, "record")
         THEN CallNext(Put(rp.args, "record", Put(rp.args.record, userIdField(cfg), rp.user.id)),
                       rp.projection, "none")
    ELSE Throw(rp, "InvalidPayload")

wrapCreateAuth(cfg, rp) ==
    IF ~isValidJwtPayload(rp.user) THEN Throw(rp, "AuthenticationRequired")
    ELSE IF ~checkIfCanWriteSelf(rp.user, cfg) /\ ~checkIfCanWriteAll(rp.user, cfg)
         THEN Throw(rp, "AccessDenied")
    ELSE IF Has(rp.args, "records")
         THEN CallNext(Put(rp.args, "records",
                           [i \in 1..Len(rp.args.records) |->
                               Put(rp.args.records[i], userIdField(cfg), rp.user.id)]),
                       rp.projection, "none")
    ELSE IF Has(rp.args, "record")
         THEN CallNext(Put(rp.args, "record", Put(rp.args.record, userIdField(cfg), rp.user.id)),
                       rp.projection, "none")
    ELSE Throw(rp, "InvalidPayload")

authMutationByIdsEach(cfg, rp) ==
    IF ~isValidJwtPayload(rp.user) THEN Throw(rp, "AuthenticationRequired")
    ELSE IF checkIfCanWriteAll(rp.user, cfg) THEN CallNext(rp.args, rp.projection, "none")
    ELSE IF ~checkIfCanWriteSelf(rp.user, cfg) THEN Throw(rp, "AccessDenied")
    ELSE IF ~Has(rp.args, "records") THEN Throw(rp, "TypeError")
    ELSE CallAux(rp,
                 [_ids |-> [i \in 1..Len(rp.args.records) |-> rp.args.records[i]._id]],
                 OwnerProjection(cfg))

authMutationByIdsEachFoundAny(cfg, rp, found) ==
    LET foundRecords == found.value
        authCount == Cardinality({i \in 1..Len(foundRecords) : Owns(foundRecords[i], cfg, rp.user)})
    IN IF authCount = 0 /\ Len(foundRecords) # 0 THEN Throw(rp, "AccessDenied")
       ELSE CallNext(rp.args, rp.projection, "none")

authMutationByIdsEachFound(cfg, rp, found) ==
    LET foundRecords == found.value
        authCount == Cardinality({i \in 1..Len(foundRecords) : Owns(foundRecords[i], cfg, rp.user)})
    IN IF authCount # Len(foundRecords) THEN Throw(rp, "AccessDenied")
       ELSE CallNext(rp.args, rp.projection, "none")

wrapMutationAuth(cfg, rp) ==
    IF ~isValidJwtPayload(rp.user) THEN Throw(rp, "AuthenticationRequired")
    ELSE IF checkIfCanWriteAll(rp.user, cfg) THEN CallNext(rp.args, rp.projection, "none")
    ELSE IF ~checkIfCanWriteSelf(rp.user, cfg) THEN Throw(rp, "AccessDenied")
    ELSE CallAux(rp, rp.args, OwnerProjection(cfg))

wrapMutationAuthFoundAny(cfg, rp, foundData) ==
    IF foundData.kind = "null" THEN Throw(rp, "TypeError")
    ELSE IF foundData.kind = "array"
    THEN LET validCount == Cardinality({i \in 1..Len(foundData.value) :
                                            Owns(foundData.value[i], cfg, rp.user)})
         IN IF validCount = 0 /\ Len(foundData.value) # 0 THEN Throw(rp, "AccessDenied")
            ELSE CallNext(rp.args, rp.projection, "none")
    ELSE CallNext(rp.args, rp.projection, "none")

\* foundData.length on null throws a TypeError
wrapMutationAuthFound(cfg, rp, foundData) ==
    IF foundData.kind = "null" THEN Throw(rp, "TypeError")
    ELSE IF foundData.kind = "array"
    THEN LET validCount == Cardinality({i \in 1..Len(foundData.value) :
                                            Owns(foundData.value[i], cfg, rp.user)})
         IN IF validCount # Len(foundData.value) THEN Throw(rp, "AccessDenied")
            ELSE CallNext(rp.args, rp.projection, "none")
    ELSE IF ~Owns(foundData.value, cfg, rp.user) THEN Throw(rp, "AccessDenied")
    ELSE CallNext(rp.args, rp.projection, "none")

\* rp.args.filter[userIdField] = id, or rp.args.filter = {[userIdField]: id}
InjectOwnerFilter(cfg, rp) ==
    IF Has(rp.args, "filter")
    THEN Put(rp.args, "filter", Put(rp.args.filter, userIdField(cfg), rp.user.id))
    ELSE Put(rp.args, "filter", Put(EmptyObject, userIdField(cfg), rp.user.id))

wrapMutationWithFilterAuthNoDeny(cfg, rp) ==
    IF ~isValidJwtPayload(rp.user) THEN Throw(rp, "AuthenticationRequired")
    ELSE IF checkIfCanWriteAll(rp.user, cfg) THEN CallNext(rp.args, rp.projection, "none")
    ELSE CallNext(InjectOwnerFilter(cfg, rp), rp.projection, "none")

wrapMutationWithFilterAuth(cfg, rp) ==
    IF ~isValidJwtPayload(rp.user) THEN Throw(rp, "AuthenticationRequired")
    ELSE IF checkIfCanWriteAll(rp.user, cfg) THEN CallNext(rp.args, rp.projection, "none")
    ELSE IF ~checkIfCanWriteSelf(rp.user, cfg) THEN Throw(rp, "AccessDenied")
    ELSE CallNext(InjectOwnerFilter(cfg, rp), rp.projection, "none")

authQueryWithFilterResolverReplace(cfg, rp) ==
    IF ~isValidJwtPayload(rp.user) THEN Throw(rp, "AuthenticationRequired")
    ELSE IF checkIfCanReadAll(rp.user, cfg) THEN CallNext(rp.args, rp.projection, "none")
    ELSE IF ~checkIfCanReadSelf(rp.user, cfg) THEN Throw(rp, "AccessDenied")
    ELSE CallNext(Put(rp.args, "filter", Put(EmptyObject, userIdField(cfg), rp.user.id)),
                  rp.projection, "none")

authQueryWithFilterResolver(cfg, rp) ==
    IF ~isValidJwtPayload(rp.user) THEN Throw(rp, "AuthenticationRequired")
    ELSE IF checkIfCanReadAll(rp.user, cfg) THEN CallNext(rp.args, rp.projection, "none")
    ELSE IF ~checkIfCanReadSelf(rp.user, cfg) THEN Throw(rp, "AccessDenied")
    ELSE CallNext(InjectOwnerFilter(cfg, rp), rp.projection, "none")

\* if (!rp.projection[userIdField]) rp.projection[userIdField] = {}
AddOwnerProjection(cfg, projection) ==
    IF Has(projection, userIdField(cfg)) THEN projection
    ELSE Put(projection, userIdField(cfg), TRUE)

authQueryByIdsResolver(cfg, rp) ==
    IF ~isValidJwtPayload(rp.user) THEN Throw(rp, "AuthenticationRequired")
    ELSE IF checkIfCanReadAll(rp.user, cfg) THEN CallNext(rp.args, rp.projection, "none")
    ELSE IF ~checkIfCanReadSelf(rp.user, cfg) THEN Throw(rp, "AccessDenied")
    ELSE CallNext(rp.args, AddOwnerProjection(cfg, rp.projection), "filter")

authQueryOneResolver(cfg, rp) ==
    IF ~isValidJwtPayload(rp.user) THEN Throw(rp, "AuthenticationRequired")
    ELSE IF checkIfCanReadAll(rp.user, cfg) THEN CallNext(rp.args, rp.projection, "none")
    ELSE IF ~checkIfCanReadSelf(rp.user, cfg) THEN Throw(rp, "AccessDenied")
    ELSE CallNext(rp.args, AddOwnerProjection(cfg, rp.projection), "one")

authQueryByIdsResultUnfiltered(cfg, rp, result) == ArrayResult(result.value)

\* result.filter((item) => item[userIdField] === rp.context.user.id)
authQueryByIdsResult(cfg, rp, result) ==
    ArrayResult(SelectSeq(result.value, LAMBDA item : Owns(item, cfg, rp.user)))

\* !result ? null : result[userIdField] === rp.context.user.id ? result : null
authQueryOneResult(cfg, rp, result) ==
    IF result.kind = "null" THEN NullResult
    ELSE IF Owns(result.value, cfg, rp.user) THEN result ELSE NullResult

\* the wrapper's resolve callback, up to its first await
Enter(op, cfg, rp) ==
    LET w == Wiring(op).wrapper
    IN CASE w = "wrapCreateAuth"              -> wrapCreateAuth(cfg, rp)
         [] w = "authMutationByIdsEach"       -> authMutationByIdsEach(cfg, rp)
         [] w = "wrapMutationAuth"            -> wrapMutationAuth(cfg, rp)
         [] w = "wrapMutationWithFilterAuth"  -> wrapMutationWithFilterAuth(cfg, rp)
         [] w = "authQueryWithFilterResolver" -> authQueryWithFilterResolver(cfg, rp)
         [] w = "authQueryByIdsResolver"      -> authQueryByIdsResolver(cfg, rp)
         [] w = "authQueryOneResolver"        -> authQueryOneResolver(cfg, rp)

\* the continuation after the auxiliary fetch
Found(op, cfg, rp, found) ==
    IF Wiring(op).wrapper = "authMutationByIdsEach"
    THEN authMutationByIdsEachFound(cfg, rp, found)
    ELSE wrapMutationAuthFound(cfg, rp, found)

\* the continuation after the wrapped resolver
Returned(post, cfg, rp, result) ==
    IF result.kind = "error" THEN result
    ELSE IF post = "filter" THEN authQueryByIdsResult(cfg, rp, result)
    ELSE IF post = "one" THEN authQueryOneResult(cfg, rp, result)
    ELSE result

----------------------------------------------------------------------------
(* Wrapper construction *)

\* what one wrapper function returns for authConfig: the resolver itself,
\* a wrapped resolver, or the error validateAuthObject throws
Construct(cfg) ==
    IF ~isAuthConfigImpactful(cfg) THEN "passthrough"
    ELSE IF validateAuthObject(cfg) # "ok" THEN validateAuthObject(cfg)
    ELSE "wrapped"

\* getGraphqlAttrs: the wrappers are built one after the other; the first
\* throw ends it
RECURSIVE getGraphqlAttrs(_, _, _, _)
getGraphqlAttrs(ops, cfg, built, n) ==
    IF ops = <<>> THEN [startup |-> "ok", wrappers |-> built, validateCalls |-> n]
    ELSE LET c == Construct(cfg)
             calls == IF isAuthConfigImpactful(cfg) THEN n + 1 ELSE n
         IN IF c \in {"passthrough", "wrapped"}
            THEN getGraphqlAttrs(Tail(ops), cfg, [built EXCEPT ![Head(ops)] = c], calls)
            ELSE [startup |-> c, wrappers |-> built, validateCalls |-> calls]

----------------------------------------------------------------------------
(* Inputs *)

\* subject ids: the caller of the scenarios and another subject
SubjectIds == <<7, 9>>
Me == SubjectIds[1]
Other == SubjectIds[2]

Users ==
    { NoUser,
      User(0, Arr(<<Str("user")>>)),
      User(Me, NotAnArray),
      User(Me, Arr(<<Str("user"), Num("42")>>)),
      User(Me, Arr(<<>>)),
      User(Me, Arr(<<Str("user")>>)),
      User(Me, Arr(<<Str("admin")>>)) }

WithOwner(cfg) == Put(cfg, "userIdField", "ownerId")

Policies ==
    { NoAuthConfig,
      WithOwner(Config(<<>>, <<>>, <<"user">>, <<"user">>)),
      WithOwner(Config(<<"admin">>, <<"admin">>, <<"user", "admin">>, <<"user", "admin">>)),
      Config(<<"admin">>, <<"admin">>, <<>>, <<>>),
      Config(<<"admin">>, <<"admin">>, <<"user">>, <<>>),
      Config(<<>>, <<>>, <<>>, <<"user">>) }

Doc(id, owner, val) == [_id |-> id, ownerId |-> owner, val |-> val]

\* {_id: 1, ownerId: 9} and {_id: 2, ownerId: 7}
InitStore == [id \in Ids |-> Doc(id, IF id = 1 THEN Other ELSE Me, 1)]

IdLists == UNION {[1..n -> Ids] : n \in 1..MaxBatch}

Filters == { [val |-> 1], [ownerId |-> Other, val |-> 1] }

WithFilter == {EmptyObject} \cup {[filter |-> f] : f \in Filters}

UpdateRecords == { [val |-> 2], [ownerId |-> Other] }

NewRecords == { [val |-> 1], [val |-> 2, ownerId |-> Other] }

EachRecords ==
    { [i \in 1..Len(ids) |-> [_id |-> ids[i], val |-> 2]] : ids \in IdLists }
    \cup { <<>>, <<[_id |-> 1]>> }

ArgsFor(op) ==
    CASE op \in {"ById", "RemoveById"} -> {[_id |-> id] : id \in Ids}
      [] op = "ByIds" -> {[_ids |-> ids] : ids \in IdLists}
      [] op \in {"One", "Many", "Count", "Connection", "Pagination", "RemoveOne", "RemoveMany"} ->
            WithFilter
      [] op \in {"UpdateById", "UpdatePartialById"} ->
            {[_id |-> id, record |-> r] : id \in Ids, r \in UpdateRecords}
      [] op \in {"UpdateOne", "PartialUpdateOne", "UpdateMany"} ->
            {Put(a, "record", r) : a \in WithFilter, r \in UpdateRecords}
      [] op = "CreateOne" ->
            {EmptyObject} \cup {[record |-> r] : r \in NewRecords}
            \cup {[record |-> [val |-> 1], records |-> <<[val |-> 2]>>]}
      [] op = "CreateMany" ->
            {EmptyObject, [records |-> <<>>]}
            \cup {[records |-> [i \in 1..n |-> r]] : n \in 1..MaxBatch, r \in NewRecords}
      [] op \in {"UpdateByIdEach", "UpdatePartialByIdEach"} ->
            {[records |-> rs] : rs \in EachRecords}

ProjectionsFor(op) ==
    IF IsQuery(op) THEN {[val |-> TRUE], [val |-> TRUE, ownerId |-> TRUE]}
    ELSE {EmptyObject}

\* the store has an id left for every document a create would insert
HasRoom(op, args) ==
    CASE op = "CreateOne" -> FreeIds(store) # {}
      [] op = "CreateMany" ->
            Has(args, "records") => Len(args.records) <= Cardinality(FreeIds(store))
      [] OTHER -> TRUE

----------------------------------------------------------------------------
(* State machine *)

Idle == [pc |-> "idle"]

Init ==
    /\ authConfig \in Policies
    /\ startup = "init"
    /\ wrappers = [op \in Ops |-> "unbuilt"]
    /\ validateCalls = 0
    /\ store = InitStore
    /\ req = Idle
    /\ inflight = {}

\* buildSchemaFromInterfaces -> getGraphqlAttrs for the entity
BuildSchema ==
    /\ startup = "init"
    /\ LET r == getGraphqlAttrs(OpOrder, authConfig, wrappers, 0)
       IN /\ startup' = r.startup
          /\ wrappers' = r.wrappers
          /\ validateCalls' = r.validateCalls
    /\ UNCHANGED <<authConfig, store, req, inflight>>

\* a request arrives at a generated field: the resolver runs to its first await
Resolve(op, user, args, projection) ==
    /\ startup = "ok"
    /\ req.pc = "idle"
    /\ wrappers[op] # "unbuilt"
    /\ HasRoom(op, args)
    /\ LET rp == [user |-> user, args |-> args, projection |-> projection]
           e == IF wrappers[op] = "passthrough"
                THEN CallNext(args, projection, "none")
                ELSE Enter(op, authConfig, rp)
       IN req' = [pc |-> e.pc, op |-> op, user |-> user,
                  args0 |-> args, projection0 |-> projection, store0 |-> store,
                  args |-> e.args, projection |-> e.projection,
                  post |-> e.post, aux |-> e.aux,
                  identityChecks |-> IF wrappers[op] = "passthrough" THEN 0 ELSE 1,
                  calls |-> <<>>, inner |-> "called", order |-> <<>>, handed |-> EmptyObject,
                  error |-> e.error, result |-> NoResult]
    /\ UNCHANGED <<authConfig, startup, wrappers, validateCalls, store, inflight>>

\* the auxiliary fetch answers and the wrapper decides
Prefetch ==
    /\ req.pc = "prefetch"
    /\ \E order \in Orders :
         LET name == Wiring(req.op).aux
             found == Fetch(name, store, order, req.aux.args, req.aux.projection)
             rp == [user |-> req.user, args |-> req.args, projection |-> req.projection]
             e == Found(req.op, authConfig, rp, found)
         IN req' = [req EXCEPT !.pc = e.pc, !.error = e.error,
                       !.calls = Append(@, [to |-> "aux", resolver |-> name,
                                            args |-> req.aux.args,
                                            projection |-> req.aux.projection,
                                            result |-> found])]
    /\ UNCHANGED <<authConfig, startup, wrappers, validateCalls, store, inflight>>

\* the wrapper's return once the wrapped resolver has settled with result r
Settle(r) ==
    LET rp == [user |-> req.user, args |-> req.args, projection |-> req.projection]
        res == Returned(req.post, authConfig, rp, r)
    IN [pc |-> "done",
        error |-> IF res.kind = "error" THEN res.value.message ELSE "none",
        result |-> IF res.kind = "error" THEN NoResult ELSE res,
        call |-> [to |-> "next", resolver |-> Wiring(req.op).base, args |-> req.args,
                  projection |-> req.projection, result |-> r]]

\* the pre-fetch/merge helper has run, or the field has none: the base
\* resolver is the next to run
AtBase ==
    /\ req.pc = "next"
    /\ \/ req.inner = "base"
       \/ req.inner = "called" /\ Wiring(req.op).prefetch = "none"

\* rp.args as the base resolver receives it
BaseArgs == IF req.inner = "base" THEN req.handed ELSE req.args

\* the pre-fetch of the field's pre-fetch/merge helper answers and the helper
\* merges rp.args over it
PreFetchMerge ==
    /\ req.pc = "next"
    /\ req.inner = "called"
    /\ Wiring(req.op).prefetch # "none"
    /\ \E order \in Orders :
         req' = [req EXCEPT !.inner = "base", !.order = order,
                            !.handed = InnerArgs(req.op, store, order, req.args)]
    /\ UNCHANGED <<authConfig, startup, wrappers, validateCalls, store, inflight>>

\* the order of the stored documents for the base resolver: the one the
\* helper's pre-fetch met, if the field has a helper
BaseOrders == IF req.inner = "base" THEN {req.order} ELSE Orders

\* the base resolver's store call answers and the wrapper returns
Delegate ==
    /\ AtBase
    /\ Wiring(req.op).base # "updateByIdEach"
    /\ \E order \in BaseOrders :
         LET w == Wiring(req.op)
             r == IF IsQuery(req.op)
                  THEN [store |-> store,
                        result |-> Fetch(w.base, store, order, BaseArgs, req.projection)]
                  ELSE Mutate(w.base, store, order, <<>>, BaseArgs)
             s == Settle(r.result)
         IN /\ store' = r.store
            /\ req' = [req EXCEPT !.pc = s.pc, !.error = s.error, !.result = s.result,
                          !.inner = "returned",
                          !.handed = BaseArgs,
                          !.calls = Append(@, s.call)]
    /\ UNCHANGED <<authConfig, startup, wrappers, validateCalls, inflight>>

\* the fields of a call of the update-each resolver: its input, its docs, each
\* sub-operation's position, the answers so far and what its caller has
EachCall(recordData) ==
    LET check == updateByIdEachCheck(recordData)
        docs == IF check = "ok" THEN updateByIdEachDocs(recordData) ELSE <<>>
    IN [recordData |-> recordData, docs |-> docs,
        sub |-> [i \in 1..Len(docs) |-> "update"],
        records |-> [i \in 1..Len(docs) |-> NoResult],
        history |-> <<>>, failures |-> <<>>,
        outcome |-> IF check = "ok" THEN "pending" ELSE "rejected",
        error |-> IF check = "ok" THEN "none" ELSE check,
        result |-> NoResult]

\* the update-each resolver is the base resolver: it runs up to
\* `await Promise.all`, every sub-operation's findByIdAndUpdate in flight
EachBegin ==
    /\ AtBase
    /\ Wiring(req.op).base = "updateByIdEach"
    /\ LET c == EachCall(recordDataOf(BaseArgs))
       IN req' = [k \in (DOMAIN req) \cup (DOMAIN c) |->
                     IF k = "inner" THEN "each"
                     ELSE IF k = "handed" THEN BaseArgs
                     ELSE IF k \in DOMAIN c THEN c[k] ELSE req[k]]
    /\ UNCHANGED <<authConfig, startup, wrappers, validateCalls, store, inflight>>

\* the update-each resolver is awaited, its sub-operations in flight
EachRunning == req.pc = "next" /\ req.inner = "each"

\* what the resolver's caller has after a sub-operation's step
EachSettle(r, sub, records, failures) ==
    LET all == PromiseAll(sub, failures)
    IN IF r.outcome # "pending" THEN [outcome |-> r.outcome, error |-> r.error, result |-> r.result]
       ELSE IF all.state = "rejected"
            THEN [outcome |-> "rejected", error |-> all.error, result |-> NoResult]
       ELSE IF all.state = "fulfilled"
            THEN [outcome |-> "fulfilled", error |-> "none",
                  result |-> updateByIdEachReturn(records, r.docs)]
       ELSE [outcome |-> "pending", error |-> "none", result |-> NoResult]

EachStep(i, op, ok, records) ==
    LET sub == [req.sub EXCEPT ![i] = IF ~ok THEN "rejected"
                                       ELSE IF op = "findByIdAndUpdate" THEN "refetch" ELSE "done"]
        failures == IF ok THEN req.failures
                    ELSE Append(req.failures, [index |-> i, error |-> op])
        s == EachSettle(req, sub, records, failures)
    IN req' = [req EXCEPT !.sub = sub, !.records = records, !.failures = failures,
                          !.history = Append(@, [index |-> i, op |-> op, ok |-> ok]),
                          !.outcome = s.outcome, !.error = s.error, !.result = s.result]

\* the store answers sub-operation i's findByIdAndUpdate, or fails it
EachUpdate(i, ok) ==
    /\ EachRunning
    /\ i \in 1..Len(req.sub)
    /\ req.sub[i] = "update"
    /\ store' = IF ok THEN findByIdAndUpdate(store, req.docs[i]) ELSE store
    /\ EachStep(i, "findByIdAndUpdate", ok, req.records)
    /\ UNCHANGED <<authConfig, startup, wrappers, validateCalls, inflight>>

\* the store answers sub-operation i's findById, or fails it
EachRefetch(i, ok) ==
    /\ EachRunning
    /\ i \in 1..Len(req.sub)
    /\ req.sub[i] = "refetch"
    /\ EachStep(i, "findById", ok,
                IF ok THEN [req.records EXCEPT ![i] = modelFindById(store, req.docs[i])]
                ELSE req.records)
    /\ UNCHANGED <<authConfig, startup, wrappers, validateCalls, store, inflight>>

\* the update-each resolver has settled and the wrapper returns
EachReturn ==
    /\ EachRunning
    /\ req.outcome # "pending"
    /\ LET s == Settle(IF req.outcome = "rejected" THEN ErrorResult(req.error) ELSE req.result)
       IN req' = [k \in (DOMAIN req) \ {"recordData", "docs", "sub", "records", "history",
                                         "failures", "outcome"} |->
                     IF k = "pc" THEN s.pc
                     ELSE IF k = "error" THEN s.error
                     ELSE IF k = "result" THEN s.result
                     ELSE IF k = "inner" THEN "returned"
                     ELSE IF k = "calls" THEN Append(req.calls, s.call)
                     ELSE req[k]]
    /\ UNCHANGED <<authConfig, startup, wrappers, validateCalls, store, inflight>>

\* the response is sent and the request parameters are discarded
Return ==
    /\ req.pc = "done"
    /\ req' = Idle
    /\ UNCHANGED <<authConfig, startup, wrappers, validateCalls, store, inflight>>

Next ==
    \/ BuildSchema
    \/ \E op \in Ops : \E user \in Users : \E args \in ArgsFor(op) :
          \E projection \in ProjectionsFor(op) : Resolve(op, user, args, projection)
    \/ Prefetch
    \/ PreFetchMerge
    \/ Delegate
    \/ EachBegin
    \/ \E i \in 1..MaxBatch : EachUpdate(i, TRUE)
    \/ \E i \in 1..MaxBatch : EachRefetch(i, TRUE)
    \/ EachReturn
    \/ Return

Spec == Init /\ [][Next]_vars

----------------------------------------------------------------------------
(* The update-each resolver step by step: its sub-operations are store      *)
(* calls in flight together, each answered or failed by the store in any   *)
(* order.  The resolver is called directly, as a wrapper built without a    *)
(* policy calls it.                                                        *)

\* entries a caller may hand to the resolver
EachEntries ==
    { Obj([_id |-> 1, val |-> 2]), Obj([_id |-> 2, val |-> 2]), Obj([_id |-> 2, val |-> 3]),
      Obj([_id |-> 1]), Obj(EmptyObject), Num("5"), Null }

EachInputs ==
    {NotAnArray} \cup {Arr(items) : items \in UNION {[1..n -> EachEntries] : n \in 0..MaxBatch}}

\* the collection, and the collection once document 1 has been removed
EachStores == {InitStore, RemoveIds(InitStore, {1})}

InitEach ==
    /\ authConfig = NoAuthConfig
    /\ startup = "ok"
    /\ wrappers = [op \in Ops |-> "passthrough"]
    /\ validateCalls = 0
    /\ store \in EachStores
    /\ req = Idle
    /\ inflight = {}

\* resolve(resolveParams) up to `await Promise.all`: validation, docs, and every
\* sub-operation run to its first await (its findByIdAndUpdate is in flight)
EachResolve(recordData) ==
    /\ req.pc = "idle"
    /\ LET c == EachCall(recordData)
       IN req' = [k \in {"pc", "inner", "store0"} \cup (DOMAIN c) |->
                     IF k = "pc" THEN "next"
                     ELSE IF k = "inner" THEN "each"
                     ELSE IF k = "store0" THEN store
                     ELSE c[k]]
    /\ UNCHANGED <<authConfig, startup, wrappers, validateCalls, store, inflight>>

NextEach ==
    \/ \E recordData \in EachInputs : EachResolve(recordData)
    \/ \E i \in 1..MaxBatch : \E ok \in BOOLEAN : EachUpdate(i, ok)
    \/ \E i \in 1..MaxBatch : \E ok \in BOOLEAN : EachRefetch(i, ok)

SpecEach == InitEach /\ [][NextEach]_vars

----------------------------------------------------------------------------
(* The partial-update fields (the pre-fetch/merge helpers inside their auth *)
(* wrappers) over documents that have a nested object                      *)

MergeOps == {"UpdatePartialById", "PartialUpdateOne", "UpdatePartialByIdEach"}

\* {_id: 1, name: "a", age: 5}, and a document of the caller with a nested object
MergeStore ==
    [id \in Ids |->
        IF id = 1 THEN [_id |-> 1, name |-> "a", age |-> 5]
        ELSE [_id |-> id, ownerId |-> Me, name |-> "b", age |-> 6, meta |-> [a |-> 1, b |-> 1]]]

MergeStores == {MergeStore, RemoveIds(MergeStore, {1})}

PartialRecords == { [name |-> "x"], [meta |-> [a |-> 2]], [age |-> 7, meta |-> [b |-> 2]] }

PartialEachRecords ==
    UNION { { [i \in 1..n |-> Put(rs[i], "_id", ids[i])] :
                ids \in [1..n -> Ids], rs \in [1..n -> PartialRecords] } : n \in 1..MaxBatch }

MergeArgsFor(op) ==
    CASE op = "UpdatePartialById" ->
            {[_id |-> id, record |-> r] : id \in Ids, r \in PartialRecords}
      [] op = "PartialUpdateOne" ->
            {Put(a, "record", r) : a \in {EmptyObject, [filter |-> [name |-> "b"]]},
                                   r \in PartialRecords}
      [] op = "UpdatePartialByIdEach" -> {[records |-> rs] : rs \in PartialEachRecords}

\* the schema has been built for an entity without a policy, or with the
\* self-only policy
InitMerge ==
    /\ authConfig \in {NoAuthConfig, WithOwner(Config(<<>>, <<>>, <<"user">>, <<"user">>))}
    /\ LET r == getGraphqlAttrs(OpOrder, authConfig, [op \in Ops |-> "unbuilt"], 0)
       IN /\ startup = r.startup
          /\ wrappers = r.wrappers
          /\ validateCalls = r.validateCalls
    /\ store \in MergeStores
    /\ req = Idle
    /\ inflight = {}

NextMerge ==
    \/ \E op \in MergeOps : \E user \in {NoUser, User(Me, Arr(<<Str("user")>>))} :
          \E args \in MergeArgsFor(op) : Resolve(op, user, args, EmptyObject)
    \/ Prefetch
    \/ PreFetchMerge
    \/ Delegate
    \/ EachBegin
    \/ \E i \in 1..MaxBatch : EachUpdate(i, TRUE)
    \/ \E i \in 1..MaxBatch : EachRefetch(i, TRUE)
    \/ EachReturn

SpecMerge == InitMerge /\ [][NextMerge]_vars

----------------------------------------------------------------------------
(* The identity validator and the permission predicates called on their    *)
(* own                                                                     *)

RoleNames == {"user", "admin", "Admin"}

RoleItems == {Str(r) : r \in RoleNames} \cup {Num("42")}

\* context.user: absent, or an object whose id may be falsy and whose
\* permissions may be anything
Claims ==
    {NoUser} \cup
    { User(id, p) : id \in {0, Me},
                    p \in {NotAnArray} \cup
                          {Arr(l) : l \in UNION {[1..n -> RoleItems] : n \in 0..MaxRoles}} }

\* the claims the wrappers hand to the predicates: permissions is a string[]
ValidClaims ==
    { User(Me, Arr(l)) :
        l \in UNION {[1..n -> {Str(r) : r \in RoleNames}] : n \in 0..MaxRoles} }

RoleSets == UNION {[1..n -> {"user", "admin"}] : n \in 0..MaxRoles}

Predicates == {"checkIfCanReadAll", "checkIfCanWriteAll", "checkIfCanReadSelf", "checkIfCanWriteSelf"}

\* a policy whose role set for the predicate is set, the other three empty
PolicyFor(fn, set) ==
    WithOwner(Config(IF fn = "checkIfCanReadAll" THEN set ELSE <<>>,
                     IF fn = "checkIfCanWriteAll" THEN set ELSE <<>>,
                     IF fn = "checkIfCanReadSelf" THEN set ELSE <<>>,
                     IF fn = "checkIfCanWriteSelf" THEN set ELSE <<>>))

Check(fn, jwt, cfg) ==
    CASE fn = "checkIfCanReadAll"   -> checkIfCanReadAll(jwt, cfg)
      [] fn = "checkIfCanWriteAll"  -> checkIfCanWriteAll(jwt, cfg)
      [] fn = "checkIfCanReadSelf"  -> checkIfCanReadSelf(jwt, cfg)
      [] fn = "checkIfCanWriteSelf" -> checkIfCanWriteSelf(jwt, cfg)

InitPure ==
    /\ authConfig = NoAuthConfig
    /\ startup = "init"
    /\ wrappers = [op \in Ops |-> "unbuilt"]
    /\ validateCalls = 0
    /\ store = InitStore
    /\ req = Idle
    /\ inflight = {}

\* isValidJwtPayload(jwt) is called and returns; jwt is the argument as passed,
\* after the argument as the call leaves it
CallIsValidJwtPayload(jwt) ==
    /\ req.pc = "idle"
    /\ req' = [pc |-> "returned", fn |-> "isValidJwtPayload", jwt |-> jwt, after |-> jwt,
               cfg |-> NoAuthConfig, output |-> isValidJwtPayload(jwt)]
    /\ UNCHANGED <<authConfig, startup, wrappers, validateCalls, store, inflight>>

\* one of the four predicates is called and returns
CallCheck(fn, jwt, cfg) ==
    /\ req.pc = "idle"
    /\ req' = [pc |-> "returned", fn |-> fn, jwt |-> jwt, after |-> jwt,
               cfg |-> cfg, output |-> Check(fn, jwt, cfg)]
    /\ UNCHANGED <<authConfig, startup, wrappers, validateCalls, store, inflight>>

NextPure ==
    \/ \E jwt \in Claims : CallIsValidJwtPayload(jwt)
    \/ \E fn \in Predicates : \E jwt \in ValidClaims : \E set \in RoleSets :
          CallCheck(fn, jwt, PolicyFor(fn, set))

SpecPure == InitPure /\ [][NextPure]_vars

----------------------------------------------------------------------------
(* The read side of the schema: the entity's generated queries, and the    *)
(* nested relation fields of another entity's type that resolve to it      *)

QueryOps == {op \in Ops : IsQuery(op)}

\* source[nestedInfo.idsField]: the id, or the ids, the parent record refers to
NestedArgsFor(op) ==
    IF op = "NestedOne" THEN {[_id |-> id] : id \in Ids}
    ELSE {[_ids |-> ids] : ids \in IdLists}

\* a nested relation field is resolved for a parent record the caller was
\* given: its resolve function calls findById / findByIds with {args} alone
ResolveNested(op, user, args) ==
    /\ startup = "ok"
    /\ req.pc = "idle"
    /\ req' = [pc |-> "next", op |-> op, user |-> user,
               args0 |-> args, projection0 |-> EmptyObject, store0 |-> store,
               args |-> args, projection |-> EmptyObject,
               post |-> "none", aux |-> NoCall, identityChecks |-> 0,
               calls |-> <<>>, inner |-> "called", order |-> <<>>, handed |-> EmptyObject,
               error |-> "none", result |-> NoResult]
    /\ UNCHANGED <<authConfig, startup, wrappers, validateCalls, store, inflight>>

NextRead ==
    \/ BuildSchema
    \/ \E op \in QueryOps : \E user \in Users : \E args \in ArgsFor(op) :
          \E projection \in ProjectionsFor(op) : Resolve(op, user, args, projection)
    \/ \E op \in NestedOps : \E user \in Users : \E args \in NestedArgsFor(op) :
          ResolveNested(op, user, args)
    \/ Delegate
    \/ Return

SpecRead == Init /\ [][NextRead]_vars

----------------------------------------------------------------------------
(* Requests in flight together.  The server is single-threaded: a request   *)
(* runs until it awaits a store call; while it is suspended there, another *)
(* request may arrive or continue.                                         *)

ConcurrentOps == {"UpdateById", "UpdatePartialById", "RemoveById", "UpdateByIdEach"}

\* writes to the caller's document, and an update-each over both documents
ConcurrentArgsFor(op) ==
    CASE op = "UpdateById" -> {[_id |-> 2, record |-> r] : r \in UpdateRecords}
      [] op = "UpdatePartialById" -> {[_id |-> 2, record |-> [val |-> 2]]}
      [] op = "RemoveById" -> {[_id |-> 2]}
      [] op = "UpdateByIdEach" ->
            {[records |-> <<[_id |-> 1, val |-> 2], [_id |-> 2, val |-> 2]>>]}

\* a self-only caller, and a caller with the 'all' role
ConcurrentUsers == {User(Me, Arr(<<Str("user")>>)), User(Me, Arr(<<Str("admin")>>))}

\* the schema has been built for the self-only policy, or for the policy that
\* also names an 'all' role
InitConcurrent ==
    /\ authConfig \in
          { WithOwner(Config(<<>>, <<>>, <<"user">>, <<"user">>)),
            WithOwner(Config(<<"admin">>, <<"admin">>, <<"user", "admin">>, <<"user", "admin">>)) }
    /\ LET r == getGraphqlAttrs(OpOrder, authConfig, [op \in Ops |-> "unbuilt"], 0)
       IN /\ startup = r.startup
          /\ wrappers = r.wrappers
          /\ validateCalls = r.validateCalls
    /\ store = InitStore
    /\ req = Idle
    /\ inflight = {}

\* the running request awaits (its auxiliary fetch, or a store call of the
\* wrapped resolver) and the event loop turns to something else
Suspend ==
    /\ req.pc \in {"prefetch", "next"}
    /\ Cardinality(inflight) < MaxSuspended
    /\ inflight' = inflight \cup {req}
    /\ req' = Idle
    /\ UNCHANGED <<authConfig, startup, wrappers, validateCalls, store>>

\* a suspended request is the next to continue
Resume(r) ==
    /\ req.pc = "idle"
    /\ r \in inflight
    /\ req' = r
    /\ inflight' = inflight \ {r}
    /\ UNCHANGED <<authConfig, startup, wrappers, validateCalls, store>>

\* the running request awaits and a suspended one continues in its place
Yield(r) ==
    /\ req.pc \in {"prefetch", "next"}
    /\ r \in inflight
    /\ req' = r
    /\ inflight' = (inflight \ {r}) \cup {req}
    /\ UNCHANGED <<authConfig, startup, wrappers, validateCalls, store>>

NextConcurrent ==
    \/ \E op \in ConcurrentOps : \E user \in ConcurrentUsers :
          \E args \in ConcurrentArgsFor(op) : Resolve(op, user, args, EmptyObject)
    \/ Prefetch
    \/ PreFetchMerge
    \/ Delegate
    \/ EachBegin
    \/ \E i \in 1..MaxBatch : EachUpdate(i, TRUE)
    \/ \E i \in 1..MaxBatch : EachRefetch(i, TRUE)
    \/ EachReturn
    \/ Return
    \/ Suspend
    \/ \E r \in inflight : Resume(r)
    \/ \E r \in inflight : Yield(r)

SpecConcurrent == InitConcurrent /\ [][NextConcurrent]_vars

----------------------------------------------------------------------------
(* Vocabulary of the properties, stated from the specification's words *)

Active == req.pc # "idle"
Done == req.pc = "done"
Wrapped == wrappers[req.op] = "wrapped"
WrapperOf(op) == Wiring(op).wrapper

\* absent, falsy subject id, or roles not an array of strings
ClaimInvalid(user) ==
    \/ user = NoUser
    \/ user.id = 0
    \/ ~user.permissions.isArray
    \/ \E i \in 1..Len(user.permissions.items) : user.permissions.items[i][1] # "string"

\* the claim's roles and the role set share a string
HasRole(user, roleSet) ==
    \E i \in 1..Len(user.permissions.items) : \E j \in 1..Len(roleSet) :
        user.permissions.items[i] = <<"string", roleSet[j]>>

WriteSelfOnly(user) ==
    /\ ~ClaimInvalid(user)
    /\ HasRole(user, authConfig.writeSelf)
    /\ ~HasRole(user, authConfig.writeAll)

ReadSelfOnly(user) ==
    /\ ~ClaimInvalid(user)
    /\ HasRole(user, authConfig.readSelf)
    /\ ~HasRole(user, authConfig.readAll)

CallsTo(target) == SelectSeq(req.calls, LAMBDA c : c.to = target)

\* the orders in which the store may answer the calls of an update-each of
\* args.records: each index twice (its update, then its re-fetch)
AnswerOrders(args) ==
    LET n == IF Has(args, "records") THEN Len(args.records) ELSE 0
    IN {a \in [1..(2 * n) -> 1..n] :
          \A i \in 1..n : Cardinality({k \in 1..(2 * n) : a[k] = i}) = 2}

\* the documents an auxiliary fetch returned
Fetched(found) ==
    IF found.kind = "array" THEN SeqSet(found.value)
    ELSE IF found.kind = "object" THEN {found.value}
    ELSE {}

OwnedBy(doc, user) == Has(doc, "ownerId") /\ doc.ownerId = user.id

----------------------------------------------------------------------------
(* C1 *)

\* C1: a request with an invalid identity claim (absent, falsy subject id, roles
\* not an array of strings) to any wrapper built from a present policy ends with
\* AuthenticationRequired, with neither the auxiliary fetch nor the wrapped
\* resolver invoked and the store untouched.
C1_InvalidClaimRejectedBeforeStore ==
    (Active /\ Wrapped /\ ClaimInvalid(req.user)) =>
        /\ Done
        /\ req.error = "AuthenticationRequired"
        /\ req.calls = <<>>
        /\ store = req.store0

\* every wrapper kind has rejected some invalid claim; shown here for the
\* mutation-by-id wrapper, which has an auxiliary fetch to skip
C1_Witness ==
    /\ Done /\ Wrapped
    /\ req.op = "UpdateById"
    /\ req.user = User(Me, Arr(<<Str("user"), Num("42")>>))
    /\ req.error = "AuthenticationRequired"

----------------------------------------------------------------------------
(* C2 *)

\* C2: for a valid claim with writeSelf but not writeAll, the mutation-by-id
\* wrapper first fetches the target(s) with the request's args projecting the
\* owner field; if a fetched record's owner differs from the subject id the call
\* ends with AccessDenied, the wrapped resolver is not invoked and the store is
\* unchanged; the wrapped resolver is invoked only when every fetched record is
\* owned by the subject (and, for an id, only when that id's document is).
C2_MutationByIdOwnership ==
    (Active /\ Wrapped /\ WrapperOf(req.op) = "wrapMutationAuth" /\ WriteSelfOnly(req.user)) =>
        /\ req.pc = "prefetch" => req.calls = <<>>
        /\ req.pc # "prefetch" =>
            /\ Len(req.calls) >= 1
            /\ req.calls[1].to = "aux"
            /\ req.calls[1].resolver = Wiring(req.op).aux
            /\ req.calls[1].args = req.args0
            /\ req.calls[1].projection = [ownerId |-> TRUE]
            /\ Len(CallsTo("aux")) = 1
            /\ (\E d \in Fetched(req.calls[1].result) : ~OwnedBy(d, req.user)) =>
                  /\ Done /\ req.error = "AccessDenied"
                  /\ CallsTo("next") = <<>>
                  /\ store = req.store0
            /\ (req.pc = "next" \/ CallsTo("next") # <<>>) =>
                  /\ req.calls[1].result.kind # "null"
                  /\ \A d \in Fetched(req.calls[1].result) : OwnedBy(d, req.user)
                  /\ Has(req.args0, "_id") =>
                        /\ req.args0._id \in DOMAIN req.store0
                        /\ OwnedBy(req.store0[req.args0._id], req.user)

\* an update by id of another subject's document was denied after the pre-fetch
C2_Witness ==
    /\ Done /\ Wrapped /\ req.op = "UpdateById" /\ WriteSelfOnly(req.user)
    /\ req.error = "AccessDenied"
    /\ Len(req.calls) = 1
    /\ req.calls[1].result.kind = "object"
    /\ req.calls[1].result.value.ownerId = Other

----------------------------------------------------------------------------
(* C3 *)

\* C3: for a valid claim with writeSelf but not writeAll, the batch-by-ids-each
\* wrapper fetches the owner fields of the ids of args.records in one query; the
\* wrapped update-each resolver is invoked iff every fetched record is owned by
\* the subject; otherwise the batch ends with AccessDenied and the store is
\* unchanged.
C3_BatchAllOrNothing ==
    (Active /\ Wrapped /\ WrapperOf(req.op) = "authMutationByIdsEach"
        /\ WriteSelfOnly(req.user)) =>
        /\ req.pc = "prefetch" => req.calls = <<>>
        /\ req.pc # "prefetch" =>
            /\ Len(CallsTo("aux")) = 1
            /\ req.calls[1].to = "aux"
            /\ req.calls[1].resolver = "findByIds"
            /\ req.calls[1].args =
                   [_ids |-> [i \in 1..Len(req.args0.records) |-> req.args0.records[i]._id]]
            /\ req.calls[1].projection = [ownerId |-> TRUE]
            /\ LET allOwned == \A d \in Fetched(req.calls[1].result) : OwnedBy(d, req.user)
               IN /\ (req.pc = "next" \/ CallsTo("next") # <<>>) <=> allOwned
                  /\ ~allOwned =>
                        /\ Done /\ req.error = "AccessDenied"
                        /\ store = req.store0
                  /\ (Done /\ allOwned) => Len(CallsTo("next")) = 1

\* a batch naming one document of the caller and one of another subject was denied
C3_Witness ==
    /\ Done /\ Wrapped /\ req.op = "UpdateByIdEach" /\ WriteSelfOnly(req.user)
    /\ req.error = "AccessDenied"
    /\ Len(req.calls) = 1
    /\ \E d \in Fetched(req.calls[1].result) : OwnedBy(d, req.user)
    /\ \E d \in Fetched(req.calls[1].result) : ~OwnedBy(d, req.user)

----------------------------------------------------------------------------
(* C4 *)

WriteWrappers ==
    {"wrapCreateAuth", "wrapMutationAuth", "wrapMutationWithFilterAuth", "authMutationByIdsEach"}

HasPayload(args) == Has(args, "record") \/ Has(args, "records")

\* C4: for a valid claim whose roles intersect writeAll, the create, update and
\* remove wrappers hand the request to the wrapped resolver unmodified: no owner
\* field stamped on the payload, no owner filter injected, no ownership pre-fetch.
C4_WriteAllDelegatesUnmodified ==
    (Active /\ Wrapped /\ WrapperOf(req.op) \in WriteWrappers
        /\ ~ClaimInvalid(req.user) /\ HasRole(req.user, authConfig.writeAll)
        /\ (WrapperOf(req.op) = "wrapCreateAuth" => HasPayload(req.args0))) =>
        /\ req.pc \in {"next", "done"}
        /\ req.args = req.args0
        /\ CallsTo("aux") = <<>>
        /\ Done => (Len(req.calls) = 1 /\ req.calls[1].to = "next"
                    /\ req.calls[1].args = req.args0)

----------------------------------------------------------------------------
(* C5 *)

ScenarioPolicy == WithOwner(Config(<<>>, <<>>, <<"user">>, <<"user">>))
ScenarioUser == User(Me, Arr(<<Str("user")>>))

\* C5: for a valid claim with readSelf but not readAll, the query-by-id(s)
\* wrappers add the owner field to the projection and keep the caller's entries,
\* delegate once, and return: (collection) exactly the fetched records owned by
\* the subject, in fetched order; (single) the fetched record if the subject owns
\* it, else null.  So subject 7 gets null for {_id: 1, ownerId: 9} and the record
\* for {_id: 2, ownerId: 7}.
C5_QueryByIdPostFilter ==
    (Active /\ Wrapped /\ req.op \in {"ById", "ByIds"} /\ ReadSelfOnly(req.user)) =>
        /\ req.pc \in {"next", "done"}
        /\ req.args = req.args0
        /\ DOMAIN req.projection = (DOMAIN req.projection0) \cup {"ownerId"}
        /\ \A k \in DOMAIN req.projection0 : req.projection[k] = req.projection0[k]
        /\ Done =>
            /\ Len(req.calls) = 1
            /\ req.calls[1].to = "next"
            /\ req.calls[1].args = req.args0
            /\ req.calls[1].projection = req.projection
            /\ req.error = "none"
            /\ LET fetched == req.calls[1].result
               IN /\ req.op = "ByIds" =>
                        /\ req.result.kind = "array"
                        /\ req.result.value =
                               SelectSeq(fetched.value, LAMBDA d : OwnedBy(d, req.user))
                        /\ {d._id : d \in SeqSet(req.result.value)} =
                               {id \in SeqSet(req.args0._ids) :
                                   id \in DOMAIN req.store0 /\ OwnedBy(req.store0[id], req.user)}
                  /\ req.op = "ById" =>
                        /\ req.result =
                               IF fetched.kind = "object" /\ OwnedBy(fetched.value, req.user)
                               THEN fetched ELSE NullResult
                        /\ req.result.kind = "object" <=>
                               (req.args0._id \in DOMAIN req.store0
                                   /\ OwnedBy(req.store0[req.args0._id], req.user))
                        /\ (authConfig = ScenarioPolicy /\ req.user = ScenarioUser
                               /\ req.store0 = InitStore) =>
                              /\ req.args0._id = 1 => req.result = NullResult
                              /\ req.args0._id = 2 =>
                                    (req.result.kind = "object" /\ req.result.value._id = 2
                                        /\ req.result.value.ownerId = Me)

\* a query by ids fetched two documents and returned only the caller's
C5_Witness ==
    /\ Done /\ Wrapped /\ req.op = "ByIds" /\ ReadSelfOnly(req.user)
    /\ ~Has(req.projection0, "ownerId")
    /\ Len(req.calls[1].result.value) = 2
    /\ Len(req.result.value) = 1
    /\ req.result.value[1].ownerId = req.user.id

----------------------------------------------------------------------------
(* C6 *)

CallerFilter(args) == IF Has(args, "filter") THEN args.filter ELSE EmptyObject

\* C6: for a valid claim with readSelf but not readAll, the query-with-filter
\* wrapper (find-one, find-many, count, pagination, connection) delegates with a
\* filter whose owner field is the subject id and whose other keys are the
\* caller's, unchanged; with no caller filter it is exactly {ownerId: subjectId}.
C6_QueryFilterMerged ==
    (Active /\ Wrapped /\ req.op \in {"One", "Many", "Count", "Pagination", "Connection"}
        /\ ReadSelfOnly(req.user)) =>
        /\ req.pc \in {"next", "done"}
        /\ DOMAIN req.args = (DOMAIN req.args0) \cup {"filter"}
        /\ \A k \in (DOMAIN req.args0) \ {"filter"} : req.args[k] = req.args0[k]
        /\ req.projection = req.projection0
        /\ DOMAIN req.args.filter = (DOMAIN CallerFilter(req.args0)) \cup {"ownerId"}
        /\ req.args.filter.ownerId = req.user.id
        /\ \A k \in (DOMAIN CallerFilter(req.args0)) \ {"ownerId"} :
               req.args.filter[k] = req.args0.filter[k]
        /\ ~Has(req.args0, "filter") => req.args.filter = [ownerId |-> req.user.id]
        /\ Done =>
            /\ Len(req.calls) = 1
            /\ req.calls[1].to = "next"
            /\ req.calls[1].resolver = Wiring(req.op).base
            /\ req.calls[1].args = req.args
            /\ req.result = req.calls[1].result

\* a count whose caller filter named another owner and a value ran with the
\* owner overridden and the value kept
C6_Witness ==
    /\ Done /\ Wrapped /\ req.op = "Count" /\ ReadSelfOnly(req.user)
    /\ req.args0 = [filter |-> [ownerId |-> Other, val |-> 1]]
    /\ req.calls[1].args = [filter |-> [ownerId |-> Me, val |-> 1]]

----------------------------------------------------------------------------
(* C7 *)

\* C7: for a valid claim with writeSelf but not writeAll, each generated
\* filter-based mutation (update-one, update-many, remove-one, remove-many)
\* reaches the store with the owner filter {ownerId: subjectId} in its filter.
C7_FilterMutationsOwnerScoped ==
    (Active /\ Wrapped /\ WriteSelfOnly(req.user)
        /\ req.op \in {"UpdateOne", "PartialUpdateOne", "UpdateMany", "RemoveOne", "RemoveMany"}
        /\ CallsTo("next") # <<>>) =>
        LET c == CallsTo("next")[1]
        IN Has(c.args, "filter") /\ Has(c.args.filter, "ownerId")
           /\ c.args.filter.ownerId = req.user.id

----------------------------------------------------------------------------
(* C8 *)

Stamped(record, sent, user) ==
    /\ DOMAIN sent = (DOMAIN record) \cup {userIdField(authConfig)}
    /\ sent[userIdField(authConfig)] = user.id
    /\ \A k \in (DOMAIN record) \ {userIdField(authConfig)} : sent[k] = record[k]

\* C8: for an authorized caller the create wrapper invokes the wrapped create
\* resolver with the owner field of every record of the payload (each element of
\* args.records, or else the single args.record) set to the subject id, whatever
\* owner the caller supplied and every other field kept; with neither a record
\* nor a records list it ends with InvalidPayload and invokes nothing.
C8_CreateStampsOwner ==
    (Active /\ Wrapped /\ WrapperOf(req.op) = "wrapCreateAuth" /\ ~ClaimInvalid(req.user)
        /\ (HasRole(req.user, authConfig.writeSelf) \/ HasRole(req.user, authConfig.writeAll))) =>
        /\ ~HasPayload(req.args0) =>
              /\ Done /\ req.error = "InvalidPayload"
              /\ req.calls = <<>> /\ store = req.store0
        /\ HasPayload(req.args0) =>
              /\ req.pc \in {"next", "done"}
              /\ DOMAIN req.args = DOMAIN req.args0
              /\ Has(req.args0, "records") =>
                    /\ Len(req.args.records) = Len(req.args0.records)
                    /\ \A i \in 1..Len(req.args0.records) :
                           Stamped(req.args0.records[i], req.args.records[i], req.user)
              /\ (~Has(req.args0, "records")) =>
                    Stamped(req.args0.record, req.args.record, req.user)
              /\ Done =>
                    /\ Len(req.calls) = 1
                    /\ req.calls[1].to = "next"
                    /\ req.calls[1].args = req.args

\* a two-record create whose records named another owner reached the create
\* resolver with both records owned by the caller
C8_Witness ==
    /\ Done /\ Wrapped /\ req.op = "CreateMany" /\ req.error = "none"
    /\ req.args0 = [records |-> << [val |-> 2, ownerId |-> Other],
                                   [val |-> 2, ownerId |-> Other] >>]
    /\ \A i \in 1..2 : req.calls[1].args.records[i].ownerId = req.user.id
    /\ \A id \in Ids : id \in DOMAIN store /\ OwnedBy(store[id], req.user)

----------------------------------------------------------------------------
(* C9 *)

Malformed(cfg) ==
    /\ ~Has(cfg, "isUndefined")
    /\ ~Has(cfg, "userIdField")
    /\ (cfg.readSelf # <<>> \/ cfg.writeSelf # <<>>)

\* C9: with the owner field unset and readSelf or writeSelf non-empty, building a
\* wrapper fails with ConfigurationError: startup ends there, no wrapper exists
\* and no request is served.  The check runs once per wrapper built and never
\* while a request is served.
C9_MalformedPolicyFailsAtWrapTime ==
    /\ Malformed(authConfig) =>
          /\ startup \in {"init", "ConfigurationError"}
          /\ \A op \in Ops : wrappers[op] = "unbuilt"
          /\ ~Active
          /\ startup = "ConfigurationError" => validateCalls = 1
    /\ startup = "ok" =>
          validateCalls = IF Has(authConfig, "isUndefined") THEN 0
                          ELSE Cardinality({op \in Ops : wrappers[op] = "wrapped"})
    /\ startup = "ok" => \A op \in Ops : wrappers[op] # "unbuilt"
    /\ startup = "init" => validateCalls = 0

\* startup failed on a policy that has a self set and no owner field
C9_Witness ==
    /\ startup = "ConfigurationError"
    /\ ~Has(authConfig, "userIdField")
    /\ authConfig.readSelf = <<>> /\ authConfig.writeSelf # <<>>

----------------------------------------------------------------------------
(* C10 *)

\* C10: with the policy absent every wrapper function returns the resolver it
\* was given: each request, with or without an identity claim, reaches that
\* resolver with its arguments and projection as sent, the resolver's result or
\* failure is what the caller gets, no identity check is made and no other store
\* call is issued.
C10_AbsentPolicyIsIdentity ==
    (authConfig = NoAuthConfig) =>
        /\ validateCalls = 0
        /\ startup \in {"init", "ok"}
        /\ startup = "ok" => \A op \in Ops : wrappers[op] = "passthrough"
        /\ Active =>
            /\ req.pc \in {"next", "done"}
            /\ req.identityChecks = 0
            /\ req.args = req.args0 /\ req.projection = req.projection0
            /\ CallsTo("aux") = <<>>
            /\ req.pc = "next" => req.calls = <<>>
            /\ Done =>
                /\ Len(req.calls) = 1
                /\ req.calls[1].to = "next"
                /\ req.calls[1].resolver = Wiring(req.op).base
                /\ req.calls[1].args = req.args0
                /\ req.calls[1].projection = req.projection0
                /\ \E order \in Orders : \E answers \in AnswerOrders(req.args0) :
                      LET r == Inner(req.op, req.store0, order, answers, req.args0,
                                     req.projection0)
                      IN /\ store = r.store
                         /\ IF r.result.kind = "error"
                            THEN req.error = r.result.value.message /\ req.result = NoResult
                            ELSE req.error = "none" /\ req.result = r.result

\* an update by id sent without any identity claim was applied to the store
C10_Witness ==
    /\ authConfig = NoAuthConfig /\ Done
    /\ req.op = "UpdateById" /\ req.user = NoUser
    /\ req.error = "none"
    /\ store # req.store0

----------------------------------------------------------------------------
(* C11 *)

\* a valid claim whose roles intersect neither the 'all' nor the 'self' set of
\* the operation's kind (read for queries, write for mutations)
NoPermission(op, user) ==
    /\ ~ClaimInvalid(user)
    /\ IF IsQuery(op)
       THEN ~HasRole(user, authConfig.readAll) /\ ~HasRole(user, authConfig.readSelf)
       ELSE ~HasRole(user, authConfig.writeAll) /\ ~HasRole(user, authConfig.writeSelf)

\* C11: for every wrapper, a valid claim whose roles intersect neither the 'all'
\* nor the 'self' set of the operation's kind ends with AccessDenied: neither the
\* wrapped resolver nor a pre-fetch is invoked, the request's args (filter,
\* payload) and projection are as sent and the store is untouched.
C11_NoPermissionDenied ==
    (Active /\ Wrapped /\ NoPermission(req.op, req.user)) =>
        /\ Done
        /\ req.error = "AccessDenied"
        /\ req.calls = <<>>
        /\ req.args = req.args0
        /\ req.projection = req.projection0
        /\ store = req.store0

\* an admin claim was denied a filtered update under a policy that names only
\* the user role
C11_Witness ==
    /\ Done /\ Wrapped /\ req.op = "UpdateMany"
    /\ authConfig = ScenarioPolicy
    /\ req.user = User(Me, Arr(<<Str("admin")>>))
    /\ Has(req.args0, "filter")
    /\ req.error = "AccessDenied"

----------------------------------------------------------------------------
(* C12 *)

EachCalled == EachRunning

\* position of sub-operation i's answered call op in the history, 0 if none
HistoryAt(i, op) ==
    IF \E k \in 1..Len(req.history) :
          req.history[k].index = i /\ req.history[k].op = op /\ req.history[k].ok
    THEN CHOOSE k \in 1..Len(req.history) :
          req.history[k].index = i /\ req.history[k].op = op /\ req.history[k].ok
    ELSE 0

InputRecord(i) == req.recordData.items[i][2]

\* C12: for an accepted input list of length n whose sub-operations all succeed,
\* the resolver returns {records, updatedCount} with n records and updatedCount
\* n; records[i] is what the re-fetch by input i's id returned, taken after that
\* record's update was answered, whatever order the sub-operations finished in:
\* null when the id matches no stored row, else the stored row of that id, each
\* field of input i at the value of input i (or of another input of the same id).
C12_UpdateEachResult ==
    (EachCalled /\ req.outcome = "fulfilled") =>
        LET n == Len(req.recordData.items)
        IN /\ req.result.kind = "payload"
           /\ DOMAIN req.result.value = {"records", "updatedCount"}
           /\ Len(req.result.value.records) = n
           /\ req.result.value.updatedCount = n
           /\ \A i \in 1..n :
                LET rec == req.result.value.records[i]
                    in == InputRecord(i)
                IN /\ HistoryAt(i, "findByIdAndUpdate") > 0
                   /\ HistoryAt(i, "findById") > HistoryAt(i, "findByIdAndUpdate")
                   /\ IF in._id \in DOMAIN req.store0
                      THEN /\ rec.kind = "object"
                           /\ rec.value._id = in._id
                           /\ rec.value = store[in._id] \/
                                 \E j \in 1..n : j # i /\ InputRecord(j)._id = in._id
                           /\ \A k \in DOMAIN in :
                                 \/ rec.value[k] = in[k]
                                 \/ \E j \in 1..n : /\ InputRecord(j)._id = in._id
                                                    /\ Has(InputRecord(j), k)
                                                    /\ rec.value[k] = InputRecord(j)[k]
                      ELSE rec = NullResult

\* two records, the first for an id with no stored row: the second
\* sub-operation finished before the first one's update was answered, and the
\* result lists null first, the updated row second, with updatedCount 2
C12_Witness ==
    /\ EachCalled /\ req.outcome = "fulfilled"
    /\ req.recordData = Arr(<<Obj([_id |-> 1, val |-> 2]), Obj([_id |-> 2, val |-> 3])>>)
    /\ 1 \notin DOMAIN req.store0
    /\ HistoryAt(2, "findById") < HistoryAt(1, "findByIdAndUpdate")
    /\ req.result.value.records[1] = NullResult
    /\ req.result.value.records[2].value.val = 3
    /\ req.result.value.updatedCount = 2

----------------------------------------------------------------------------
(* C13 *)

\* args.records is not a non-empty list, or has an entry that is not an object
\* or is a record with no field other than its id
MustReject(recordData) ==
    \/ ~recordData.isArray
    \/ Len(recordData.items) = 0
    \/ \E i \in 1..Len(recordData.items) :
          LET e == recordData.items[i]
          IN e[1] # "object" \/ Has(e[2], "isNull") \/ (DOMAIN e[2]) \ {"_id"} = {}

\* C13: whenever args.records is not a non-empty list, or an entry is a
\* non-object or a record that is empty aside from its id, the update-each
\* resolver rejects with InvalidPayload and no store operation is issued.
C13_UpdateEachRejectsInvalidPayload ==
    (EachCalled /\ MustReject(req.recordData)) =>
        /\ req.outcome = "rejected"
        /\ req.error = "InvalidPayload"
        /\ req.history = <<>>
        /\ req.sub = <<>>
        /\ store = req.store0

----------------------------------------------------------------------------
(* C14 *)

\* the store after the answered updates of the history, applied in its order
Committed(st, docs, history) ==
    LET answered == SelectSeq(history, LAMBDA h : h.op = "findByIdAndUpdate" /\ h.ok)
    IN findByIdAndUpdateAll(st, docs, [k \in 1..Len(answered) |-> answered[k].index])

FirstFailure ==
    LET k == CHOOSE k \in 1..Len(req.history) :
                 ~req.history[k].ok /\ \A m \in 1..(k - 1) : req.history[m].ok
    IN req.history[k].op

\* C14: every sub-operation of an accepted call is in flight before any is
\* answered, and they are joined all-or-nothing: as soon as one sub-operation has
\* failed the call is rejected with that (first) failure and returns no
\* records/updatedCount, while the other sub-operations keep running and every
\* update the store answered stays in the store (no rollback); with no failure
\* the call is never rejected.
C14_JoinAllOrNothingNoRollback ==
    (EachCalled /\ req.docs # <<>>) =>
        /\ req.history = <<>> => \A i \in 1..Len(req.docs) : req.sub[i] = "update"
        /\ (\E k \in 1..Len(req.history) : ~req.history[k].ok) =>
              /\ req.outcome = "rejected"
              /\ req.error = FirstFailure
              /\ req.result = NoResult
        /\ (\A k \in 1..Len(req.history) : req.history[k].ok) => req.outcome # "rejected"
        /\ store = Committed(req.store0, req.docs, req.history)

\* the first record's update failed and rejected the call; the second record's
\* update was answered after that and its write is in the store
C14_Witness ==
    /\ EachCalled /\ req.outcome = "rejected" /\ req.result = NoResult
    /\ Len(req.docs) = 2
    /\ Len(req.history) >= 2
    /\ req.history[1] = [index |-> 1, op |-> "findByIdAndUpdate", ok |-> FALSE]
    /\ req.history[2] = [index |-> 2, op |-> "findByIdAndUpdate", ok |-> TRUE]
    /\ store # req.store0

----------------------------------------------------------------------------
(* C15 *)

\* after has every field of the partial input at the input's value and every
\* other field at its prior value, a nested object field by field
Merged(after, prior, in) ==
    /\ DOMAIN after = (DOMAIN prior) \cup (DOMAIN in)
    /\ \A k \in DOMAIN after :
          IF ~Has(in, k) THEN after[k] = prior[k]
          ELSE IF k \in NestedFields /\ Has(prior, k)
               THEN /\ DOMAIN after[k] = (DOMAIN prior[k]) \cup (DOMAIN in[k])
                    /\ \A s \in DOMAIN after[k] :
                          after[k][s] = IF Has(in[k], s) THEN in[k][s] ELSE prior[k][s]
          ELSE after[k] = in[k]

\* C15: after a partial update of one record (the single-record pre-fetch/merge
\* helper followed by the update resolver) the stored record has every field of
\* the partial input at the input's value and every field the input does not
\* mention at its prior stored value, a nested object merged field by field; no
\* other record changes.  {name: "x"} over {_id: 1, name: "a", age: 5} leaves
\* {_id: 1, name: "x", age: 5}.
C15_PartialUpdateMerges ==
    (Active /\ Done /\ req.op \in {"UpdatePartialById", "PartialUpdateOne"}
        /\ req.error = "none" /\ req.result.kind = "payload") =>
        LET id == req.result.value.record._id
        IN /\ req.op = "UpdatePartialById" => id = req.args0._id
           /\ id \in DOMAIN req.store0
           /\ DOMAIN store = DOMAIN req.store0
           /\ Merged(store[id], req.store0[id], req.args0.record)
           /\ req.result.value.record = store[id]
           /\ \A other \in (DOMAIN store) \ {id} : store[other] = req.store0[other]
           /\ (req.args0 = [_id |-> 1, record |-> [name |-> "x"]]
                  /\ req.store0[1] = [_id |-> 1, name |-> "a", age |-> 5]) =>
                 store[1] = [_id |-> 1, name |-> "x", age |-> 5]

\* a partial update naming one property of the nested object left the other
\* property of that object and the other fields as they were
C15_Witness ==
    /\ Active /\ Done /\ req.op = "UpdatePartialById" /\ req.error = "none"
    /\ req.args0 = [_id |-> 2, record |-> [meta |-> [a |-> 2]]]
    /\ store[2] = [_id |-> 2, ownerId |-> Me, name |-> "b", age |-> 6,
                   meta |-> [a |-> 2, b |-> 1]]

----------------------------------------------------------------------------
(* C16 *)

\* C16: in the list the id-list pre-fetch/merge helper hands to the update-each
\* resolver, record i is input record i merged over the stored record that has
\* input i's id (every field the input does not mention at that record's prior
\* value), and is input record i alone when no stored record has that id,
\* whatever order the store returned the fetched records in.
C16_EachMergedOverSameId ==
    (Active /\ Done /\ req.op = "UpdatePartialByIdEach" /\ CallsTo("next") # <<>>) =>
        LET in == req.args0.records
            out == req.handed.records
        IN /\ Len(out) = Len(in)
           /\ \A i \in 1..Len(in) :
                IF in[i]._id \in DOMAIN req.store0
                THEN Merged(out[i], req.store0[in[i]._id], in[i])
                ELSE out[i] = in[i]

----------------------------------------------------------------------------
(* C17 *)

ReturnedFrom(fn) == req.pc = "returned" /\ req.fn = fn

\* C17: isValidJwtPayload returns true exactly when the claim is present, its
\* subject id is truthy and its roles value is an array whose elements are all
\* strings (the empty array included); it changes neither its argument nor any
\* state.
C17_IsValidClaim ==
    ReturnedFrom("isValidJwtPayload") =>
        /\ req.output \in BOOLEAN
        /\ req.output <=>
              /\ req.jwt # NoUser
              /\ req.jwt.id # 0
              /\ req.jwt.permissions.isArray
              /\ \A i \in 1..Len(req.jwt.permissions.items) :
                    req.jwt.permissions.items[i][1] = "string"
        /\ (req.jwt # NoUser /\ req.jwt.id # 0 /\ req.jwt.permissions = Arr(<<>>)) => req.output
        /\ req.after = req.jwt
        /\ store = InitStore /\ startup = "init" /\ validateCalls = 0

\* a claim with a subject id and an empty role array was found valid
C17_Witness ==
    /\ ReturnedFrom("isValidJwtPayload")
    /\ req.jwt = User(Me, Arr(<<>>))
    /\ req.output = TRUE

----------------------------------------------------------------------------
(* C18 *)

RoleStrings(jwt) == {jwt.permissions.items[i][2] : i \in 1..Len(jwt.permissions.items)}

PolicySet(fn, cfg) ==
    CASE fn = "checkIfCanReadAll"   -> cfg.readAll
      [] fn = "checkIfCanWriteAll"  -> cfg.writeAll
      [] fn = "checkIfCanReadSelf"  -> cfg.readSelf
      [] fn = "checkIfCanWriteSelf" -> cfg.writeSelf

\* C18: each of the four permission predicates returns true exactly when the
\* set of the claim's role strings and the set of the corresponding policy roles
\* have an element in common: exact string equality, whatever the order and the
\* duplicates of either list, one common role being enough.
C18_PermissionPredicates ==
    (req.pc = "returned" /\ req.fn \in Predicates) =>
        (req.output <=> (RoleStrings(req.jwt) \cap SeqSet(PolicySet(req.fn, req.cfg)) # {}))

\* the claim's only matching role is its last one and the policy names it
\* second, after a duplicate; a role differing only in case did not count
C18_Witness ==
    /\ req.pc = "returned" /\ req.fn = "checkIfCanWriteSelf"
    /\ req.jwt = User(Me, Arr(<<Str("Admin"), Str("Admin"), Str("user")>>))
    /\ req.cfg.writeSelf = <<"admin", "admin", "user">>
    /\ req.output = TRUE

----------------------------------------------------------------------------
(* C19 *)

\* the records a query result carries
Received(result) ==
    IF result.kind \in {"array", "page"} THEN SeqSet(result.value)
    ELSE IF result.kind = "object" THEN {result.value}
    ELSE {}

\* C19: a caller with readSelf but not readAll for the entity receives from no
\* query of the schema (by id, by ids, find-one, find-many, count, pagination,
\* connection, or a nested relation field that resolves to the entity) a record
\* of the entity whose owner is not the caller.
C19_ReadIsolation ==
    (Active /\ Done /\ IsQuery(req.op) /\ ~Has(authConfig, "isUndefined")
        /\ ReadSelfOnly(req.user)) =>
        \A d \in Received(req.result) : OwnedBy(store[d._id], req.user)

----------------------------------------------------------------------------
(* C20 *)

\* the operations the mutation-by-id and batch-by-ids-each wrappers guard by
\* fetching the addressed records by id
ByIdWrites ==
    {op \in Ops : /\ WrapperOf(op) \in {"wrapMutationAuth", "authMutationByIdsEach"}
                  /\ Wiring(op).aux \in {"findById", "findByIds"}}

\* the documents a step updates or removes
Written == {id \in DOMAIN store : id \notin DOMAIN store' \/ store'[id] # store[id]}

\* C20: whatever the interleaving of the requests in flight, when the wrapped
\* mutation of a mutation-by-id or batch-by-ids-each request of a caller with
\* writeSelf but not writeAll executes, every record it updates or removes is,
\* at that moment, owned by the caller.
C20_NoCheckThenActGap ==
    [][ (/\ req.pc = "next" /\ store' # store
         /\ Wrapped
         /\ req.op \in ByIdWrites
         /\ WriteSelfOnly(req.user))
        => \A id \in Written : OwnedBy(store[id], req.user) ]_vars

----------------------------------------------------------------------------
(* C21 *)

\* create, update-by-id, update-each and filter-based update
SelfScopedWrites ==
    {"CreateOne", "CreateMany", "UpdateById", "UpdatePartialById", "UpdateByIdEach",
     "UpdatePartialByIdEach", "UpdateOne", "PartialUpdateOne", "UpdateMany"}

\* the documents a step creates or modifies
CreatedOrModified == {id \in DOMAIN store' : id \notin DOMAIN store \/ store'[id] # store[id]}

\* C21: when the wrapped resolver of a create, update-by-id, update-each or
\* filter-based update request of a caller with writeSelf but not writeAll
\* has run, every record it created or modified has its owner field equal to
\* the caller's subject id, whatever owner value the payload carried.
C21_OwnershipPreserved ==
    [][ (/\ req.pc = "next" /\ store' # store
         /\ Wrapped
         /\ req.op \in SelfScopedWrites
         /\ WriteSelfOnly(req.user))
        => \A id \in CreatedOrModified : OwnedBy(store'[id], req.user) ]_vars

====
